---------------------------- MODULE Spec2Model ----------------------------
(***************************************************************************)
(* State-machine model of mbus-master.c: the device registry, bus          *)
(* initialisation, the primary scan, the secondary probe, address          *)
(* resolution, the data query and the primary-address reassignment.        *)
(*                                                                         *)
(* The program is one control thread (main -> readcmd -> command handler)  *)
(* plus the asynchronous signal handler sigcb.  libmbus and the serial     *)
(* line are the environment: every result a library call hands back is an  *)
(* input drawn from the set of results that call can produce.              *)
(***************************************************************************)
EXTENDS Integers, Sequences, FiniteSets, TLC

VARIABLES
    running,    \* static int running (line 44)
    registry,   \* registry[0..num-1] (lines 56-57); num = Len(registry)
    reg0,       \* the registry as it was when the current command was read
    pc,         \* position of the control thread
    cmd,        \* the command handler being executed
    ret,        \* return value of the last finished handler
    bus,        \* frames handed to / results taken from libmbus by the handler
    out,        \* what the handler printed (log, warnx, printf)
    mask,       \* set_address: char *mask / parse_addr: char *args
    newarg,     \* set_address: the rest of args after strsep
    curr,       \* set_address: int curr
    next,       \* set_address: int next
    id,         \* set_address: int id
    retries,    \* set_address: int retries
    reply,      \* mbus_frame reply: its type field, "UNINIT" while never written
    address,    \* mbus_scan_1st_address_range: int address
    tries,      \* ping_address: int i
    rc,         \* mbus_scan_1st_address_range: int rc
    probes,     \* scan: the addresses ping_address was called for, in order
    pinged,     \* scan: the addresses a ping frame was sent to
    last,       \* scan: what the bus answered to the address probed last
    occ,        \* the simulated bus: number of devices at each primary address
    faithful,   \* the answers of this scan were those of the simulated bus
    sigAddr,    \* the address being probed when sigcb ran, -1 if none was
    verbose,    \* static int verbose
    xml,        \* static int xml
    qargs,      \* query_device: char *args after strsep (the record id)
    qaddr,      \* query_device: int address
    data        \* query_device: mbus_frame_data data, as parsed from the reply

setVars == <<mask, newarg, curr, next, id, retries, reply>>
scanVars == <<address, tries, rc, probes, pinged, last, occ, faithful, sigAddr>>
queryVars == <<verbose, xml, qargs, qaddr, data>>

vars == <<running, registry, reg0, pc, cmd, ret, bus, out,
          setVars, scanVars, queryVars>>

-----------------------------------------------------------------------------
(* Program constants and bounds *)

\* #define REG_NUM_MAX 50, scaled down so that a full registry is reachable
REG_NUM_MAX == 2

\* number of discovery callbacks one probe run of the library may make
MaxReports == 3

\* MBUS_MAX_PRIMARY_SLAVES is 250 in libmbus; the scanned range 0..250 is
\* scaled down
MBUS_MAX_PRIMARY_SLAVES == 2

\* handle->max_search_retry, the retry budget ping_address reads (line 121);
\* libmbus sets it to 1 by default
max_search_retry == 1

\* devices that may share one primary address on the simulated bus
MaxDevices == 2

\* records in one variable-format reply
MaxRecords == 2

MBUS_ADDRESS_NETWORK_LAYER == 253
MBUS_ADDRESS_BROADCAST_NOREPLY == 255

NULL == "NULL"

\* 16-character hex strings: three device addresses and the all-wildcard mask
SecAddrs == {"1111111111111111", "2222222222222222", "3333333333333333"}
WildMasks == {"FFFFFFFFFFFFFFFF"}
SecondaryTokens == SecAddrs \cup WildMasks

\* atoi() of the tokens the commands are given; a token with no leading
\* number, such as "x", yields 0
atoi(t) ==
    CASE t = "-1"  -> -1
      [] t = "0"   -> 0
      [] t = "1"   -> 1
      [] t = "2"   -> 2
      [] t = "3"   -> 3
      [] t = "250" -> 250
      [] t = "251" -> 251
      [] t = "255" -> 255
      [] t = "256" -> 256
      [] OTHER     -> 0

mbus_is_secondary_address(t) == t \in SecondaryTokens

RecvResults == {"OK", "TIMEOUT", "INVALID", "ERROR"}
FrameTypes == {"ACK", "SHORT", "CONTROL", "LONG"}
\* what reading an mbus_frame type field that was never written can yield
UninitTypes == FrameTypes \cup {"ANY"}
ProbeResults == {"SINGLE", "COLLISION", "NOTHING", "ERROR"}

\* scan: nothing received yet for the current address
NoAnswer == [res |-> "NONE", type |-> "NONE", purge |-> FALSE]
\* query: data before mbus_frame_data_parse
NoData == [type |-> "NONE", recs |-> << >>]

-----------------------------------------------------------------------------
(* Device registry *)

num == Len(registry)

\* index (0-based) of the first entry whose secondary equals s, or -1
reg_find_secondary(s) ==
    IF \E i \in 1..num : registry[i].secondary = s
    THEN (CHOOSE i \in 1..num :
            /\ registry[i].secondary = s
            /\ \A j \in 1..(i-1) : registry[j].secondary # s) - 1
    ELSE -1

\* return value of reg_add(s)
reg_add_rc(s) == IF num >= REG_NUM_MAX THEN -1 ELSE 0

\* mutant of reg_add: the lookup left out
reg_add_NoLookup(s) ==
    IF num >= REG_NUM_MAX THEN registry
    ELSE Append(registry, [primary |-> 0, secondary |-> s])

\* mutant of reg_add: the last slot never used
reg_add_OffByOne(s) ==
    IF num >= REG_NUM_MAX - 1 THEN registry
    ELSE IF reg_find_secondary(s) >= 0 THEN registry
    ELSE Append(registry, [primary |-> 0, secondary |-> s])

\* registry after reg_add(s); .primary of a new slot is the static zero
reg_add(s) ==
    IF num >= REG_NUM_MAX THEN registry
    ELSE IF reg_find_secondary(s) >= 0 THEN registry
    ELSE Append(registry, [primary |-> 0, secondary |-> s])

-----------------------------------------------------------------------------
(* Bus events *)

Ping(a, ok)        == [e |-> "ping", a |-> a, ok |-> ok]
Recv(res, t)       == [e |-> "recv", res |-> res, type |-> t]
Select(m, res)     == [e |-> "select", mask |-> m, res |-> res]
SetCmd(c, n, ok)   == [e |-> "set", curr |-> c, next |-> n, ok |-> ok]
Request(a, ok)     == [e |-> "request", a |-> a, ok |-> ok]
\* a call of mbus_data_record_free
Free(ptr)          == [e |-> "free", ptr |-> ptr]

\* the handler returns to readcmd, which returns to main's loop
Return(code, msgs) ==
    /\ pc' = "done"
    /\ ret' = code
    /\ out' = out \o msgs

-----------------------------------------------------------------------------
\* the state when main enters its loop, the bus left open
Start ==
    /\ running = TRUE
    /\ registry = << >>
    /\ reg0 = << >>
    /\ pc = "idle"
    /\ cmd = "none"
    /\ ret = 0
    /\ bus = << >>
    /\ out = << >>
    /\ mask = NULL
    /\ newarg = NULL
    /\ curr = 0
    /\ next = 0
    /\ id = -1
    /\ retries = 0
    /\ reply = "UNINIT"
    /\ address = 0
    /\ tries = 0
    /\ rc = 0
    /\ probes = << >>
    /\ pinged = {}
    /\ last = NoAnswer
    /\ faithful = TRUE
    /\ sigAddr = -1
    /\ verbose = FALSE
    /\ xml = FALSE
    /\ qargs = NULL
    /\ qaddr = 0
    /\ data = NoData

\* no device on the bus matters to probe and set_address: the library's
\* answers are drawn freely
Init ==
    /\ Start
    /\ occ = [a \in 0..MBUS_MAX_PRIMARY_SLAVES |-> 0]

\* sigcb: SIGINT/SIGHUP/SIGTERM may arrive at any moment
Sigcb ==
    /\ running
    /\ pc # "exit"
    /\ running' = FALSE
    /\ sigAddr' = IF pc \in {"scan_ping", "scan_recv"} THEN address ELSE -1
    /\ UNCHANGED <<registry, reg0, pc, cmd, ret, bus, out, setVars, queryVars,
                   address, tries, rc, probes, pinged, last, occ, faithful>>

-----------------------------------------------------------------------------
(* init_slaves, shared by scan, probe, parse_addr and set_address *)

\* what the caller returns when init_slaves fails
InitFailRc(c) == IF c = "scan" THEN -1 ELSE 1

\* where the caller continues after a successful init_slaves
AfterInit(c) ==
    CASE c = "set"   -> "set_vping"
      [] c = "probe" -> "probe_mask"
      [] c = "scan"  -> "scan_loop"
      [] c = "query" -> "q_resolve"
      [] OTHER       -> "done"

\* mutant of InitFailed: the failure of init_slaves not looked at
InitFailed_Ignored ==
    /\ pc' = AfterInit(cmd)
    /\ UNCHANGED <<ret, out, qaddr>>

\* init_slaves returned -1: scan, probe and set_address return; parse_addr
\* returns 1 to query_device, which takes the 1 for the address (lines 263,
\* 288-289)
InitFailed ==
    IF cmd = "query"
    THEN /\ pc' = "q_request"
         /\ qaddr' = 1
         /\ out' = Append(out, [k |-> "warn", m |-> "init_failed"])
         /\ UNCHANGED ret
    ELSE /\ Return(InitFailRc(cmd), <<[k |-> "warn", m |-> "init_failed"]>>)
         /\ UNCHANGED qaddr

\* first ping, to the network-layer address
InitSlaves1 ==
    /\ pc = "init1"
    /\ \E ok \in BOOLEAN :
        /\ bus' = Append(bus, Ping(MBUS_ADDRESS_NETWORK_LAYER, ok))
        /\ IF ok
           THEN pc' = "init2" /\ UNCHANGED <<ret, out, qaddr>>
           ELSE InitFailed
    /\ UNCHANGED <<running, registry, reg0, cmd, setVars, scanVars,
                   verbose, xml, qargs, data>>

\* second ping, to the no-reply broadcast address
InitSlaves2 ==
    /\ pc = "init2"
    /\ \E ok \in BOOLEAN :
        /\ bus' = Append(bus, Ping(MBUS_ADDRESS_BROADCAST_NOREPLY, ok))
        /\ IF ok
           THEN pc' = AfterInit(cmd) /\ UNCHANGED <<ret, out, qaddr>>
           ELSE InitFailed
    /\ UNCHANGED <<running, registry, reg0, cmd, setVars, scanVars,
                   verbose, xml, qargs, data>>

-----------------------------------------------------------------------------
(* probe_devices and its callback found_device *)

ProbeArgs == {NULL, "FFFFFFFFFFFFFFFF", "x"}

\* number of discovery callbacks made in the current probe
NumFound == Cardinality({k \in 1..Len(bus) : bus[k].e = "found"})

\* the listing printed after a successful probe (lines 218-219)
RECURSIVE Listing(_)
Listing(r) ==
    IF r = << >> THEN << >>
    ELSE <<[k |-> "list", primary |-> Head(r).primary,
            secondary |-> Head(r).secondary]>> \o Listing(Tail(r))

\* readcmd dispatches "probe [MASK]"
ProbeDevices(a) ==
    /\ pc = "idle"
    /\ cmd' = "probe"
    /\ pc' = "init1"
    /\ mask' = IF a # NULL THEN a ELSE "FFFFFFFFFFFFFFFF"
    /\ UNCHANGED <<running, registry, ret, bus, out,
                   newarg, curr, next, id, retries, reply, scanVars, queryVars, reg0>>

\* lines 208-211: the mask check, made after init_slaves
ProbeMask ==
    /\ pc = "probe_mask"
    /\ IF ~mbus_is_secondary_address(mask)
       THEN Return(1, <<[k |-> "warn", m |-> "malformed_mask"]>>)
       ELSE pc' = "probe_run" /\ UNCHANGED <<ret, out>>
    /\ UNCHANGED <<running, registry, cmd, bus, setVars, scanVars, queryVars, reg0>>

\* mbus_probe_secondary_range calls found_device(addr)
FoundDevice(s) ==
    /\ pc = "probe_run"
    /\ NumFound < MaxReports
    /\ bus' = Append(bus, [e |-> "found", addr |-> s])
    /\ registry' = reg_add(s)
    /\ out' = IF reg_add_rc(s) # 0
              THEN Append(out, [k |-> "Found", addr |-> s])
              ELSE out
    /\ UNCHANGED <<running, pc, cmd, ret, setVars, scanVars, queryVars, reg0>>

\* mbus_probe_secondary_range returns
ProbeEnd ==
    /\ pc = "probe_run"
    /\ \E ok \in BOOLEAN :
        IF ok THEN Return(0, Listing(registry))
        ELSE Return(1, <<[k |-> "warn", m |-> "failed_probe"]>>)
    /\ UNCHANGED <<running, registry, cmd, bus, setVars, scanVars, queryVars, reg0>>

-----------------------------------------------------------------------------
(* secondary_select *)

\* mutant of secondary_select: a collision taken for a selection
secondary_select_CollisionOk(r) ==
    IF r \in {"NOTHING", "ERROR"} THEN -1
    ELSE MBUS_ADDRESS_NETWORK_LAYER

\* the switch of lines 235-250: -1 for the three failures, else the
\* network-layer address
secondary_select(r) ==
    IF r \in {"COLLISION", "NOTHING", "ERROR"} THEN -1
    ELSE MBUS_ADDRESS_NETWORK_LAYER

-----------------------------------------------------------------------------
(* set_address *)

SetArgs ==
    {[mask |-> NULL, new |-> NULL]} \cup
    [mask : SecondaryTokens \cup {"0", "251", "-1", "x"},
     new  : {NULL, "0", "1", "250", "251"}]

\* lines 386-412: argument parsing, before any bus I/O
SetParse(a) ==
    IF a.mask = NULL \/ a.new = NULL
    THEN [ok |-> FALSE, msg |-> "syntax", curr |-> 0, id |-> -1, next |-> 0]
    ELSE LET sec == mbus_is_secondary_address(a.mask)
             c   == IF sec THEN MBUS_ADDRESS_NETWORK_LAYER ELSE atoi(a.mask)
             i   == IF sec THEN reg_find_secondary(a.mask) ELSE -1
             n   == atoi(a.new)
         IN IF ~sec /\ (c < 0 \/ c > 250)
            THEN [ok |-> FALSE, msg |-> "invalid_current", curr |-> c, id |-> i,
                  next |-> 0]
            ELSE IF n < 1 \/ n > 250
            THEN [ok |-> FALSE, msg |-> "invalid_new", curr |-> c, id |-> i,
                  next |-> n]
            ELSE [ok |-> TRUE, msg |-> "", curr |-> c, id |-> i, next |-> n]

\* readcmd dispatches "address MASK ADDR"
SetAddress(a) ==
    /\ pc = "idle"
    /\ cmd' = "set"
    /\ LET p == SetParse(a) IN
        /\ mask' = a.mask
        /\ newarg' = a.new
        /\ curr' = p.curr
        /\ id' = p.id
        /\ next' = p.next
        /\ IF p.ok
           THEN pc' = "init1" /\ UNCHANGED <<ret, out>>
           ELSE Return(1, <<[k |-> "warn", m |-> p.msg]>>)
    /\ UNCHANGED <<running, registry, bus, retries, reply, scanVars, queryVars, reg0>>

\* what mbus_recv_frame can hand back: a result and, with OK, a parsed frame
RecvOutcomes ==
    {<<"OK", t>> : t \in FrameTypes} \cup
    {<<r, "NONE">> : r \in RecvResults \ {"OK"}}

\* reply after mbus_recv_frame: only a received frame writes reply.type
ReplyAfter(rx) == IF rx[1] = "OK" THEN rx[2] ELSE reply

\* mbus_frame_type(&reply): the values the read can yield
FrameTypeRead(r) == IF r = "UNINIT" THEN UninitTypes ELSE {r}

\* line 417: the verification ping to the new address
SetVerifyPing ==
    /\ pc = "set_vping"
    /\ \E ok \in BOOLEAN :
        /\ bus' = Append(bus, Ping(next, ok))
        /\ IF ok
           THEN pc' = "set_vrecv" /\ UNCHANGED <<ret, out>>
           ELSE Return(1, <<[k |-> "warn", m |-> "verify_ping_failed"]>>)
    /\ UNCHANGED <<running, registry, cmd, setVars, scanVars, queryVars, reg0>>

\* mutants of VerifyFree: a malformed reply taken for silence; the test inverted
VerifyFree_Lenient(res) == res \in {"TIMEOUT", "INVALID"}
VerifyFree_Inverted(res) == res # "TIMEOUT"

\* line 422: the new address is free iff the receive timed out
VerifyFree(res) == res = "TIMEOUT"

\* mutant of NeedsSelect: the select left out
NeedsSelect_Never(c) == FALSE

\* line 427: a secondary current address has to be selected first
NeedsSelect(c) == c = MBUS_ADDRESS_NETWORK_LAYER

\* lines 422-430 up to the choice between select and set
SetVerifyRecv ==
    /\ pc = "set_vrecv"
    /\ \E rx \in RecvOutcomes :
        /\ bus' = Append(bus, Recv(rx[1], rx[2]))
        /\ reply' = ReplyAfter(rx)
        /\ IF ~VerifyFree(rx[1])
           THEN Return(1, <<[k |-> "warn", m |-> "in_use"]>>)
           ELSE /\ pc' = IF NeedsSelect(curr)
                         THEN "set_select" ELSE "set_send"
                /\ UNCHANGED <<ret, out>>
    /\ retries' = 3
    /\ UNCHANGED <<running, registry, cmd, mask, newarg, curr, next, id, scanVars, queryVars, reg0>>

\* lines 427-430
SetSelect ==
    /\ pc = "set_select"
    /\ \E r \in ProbeResults :
        /\ bus' = Append(bus, Select(mask, r))
        /\ IF secondary_select(r) = -1
           THEN Return(1, <<[k |-> "warn", m |-> "select_failed"]>>)
           ELSE pc' = "set_send" /\ UNCHANGED <<ret, out>>
    /\ UNCHANGED <<running, registry, cmd, setVars, scanVars, queryVars, reg0>>

\* line 433
SetSend ==
    /\ pc = "set_send"
    /\ \E ok \in BOOLEAN :
        /\ bus' = Append(bus, SetCmd(curr, next, ok))
        /\ IF ok
           THEN pc' = "set_recv" /\ UNCHANGED <<ret, out>>
           ELSE Return(1, <<[k |-> "warn", m |-> "set_failed"]>>)
    /\ UNCHANGED <<running, registry, cmd, setVars, scanVars, queryVars, reg0>>

\* mutant of RetryAgain: one retry too many
RetryAgain_OffByOne(r) == r > 0

\* line 439: another round of the for loop after a timeout
RetryAgain(r) == r > 1

\* line 448
IsAck(t) == t = "ACK"

\* mutant of SetRegistry: the first slot taken for "not found"
SetRegistry_SkipFirst(i, n) ==
    IF i > 0 /\ i < REG_NUM_MAX
    THEN [registry EXCEPT ![i + 1].primary = n]
    ELSE registry

\* lines 455-456: the registry after a successful reassignment
SetRegistry(i, n) ==
    IF i > -1 /\ i < REG_NUM_MAX
    THEN [registry EXCEPT ![i + 1].primary = n]
    ELSE registry

\* lines 438-458: the receive after the set command, the retry decision,
\* the frame-type check and the registry update
SetRecv ==
    /\ pc = "set_recv"
    /\ \E rx \in RecvOutcomes :
        /\ bus' = Append(bus, Recv(rx[1], rx[2]))
        /\ reply' = ReplyAfter(rx)
        /\ IF rx[1] = "TIMEOUT"
           THEN IF RetryAgain(retries)
                THEN /\ retries' = retries - 1
                     /\ pc' = "set_send"
                     /\ UNCHANGED <<ret, out, registry>>
                ELSE /\ Return(1, <<[k |-> "warn", m |-> "no_reply"]>>)
                     /\ UNCHANGED <<retries, registry>>
           ELSE \E ty \in FrameTypeRead(ReplyAfter(rx)) :
                  /\ UNCHANGED retries
                  /\ IF ~IsAck(ty)
                     THEN /\ Return(1, <<[k |-> "warn", m |-> "invalid_response"],
                                         [k |-> "frame", type |-> ty]>>)
                          /\ UNCHANGED registry
                     ELSE /\ Return(0, << >>)
                          /\ registry' = SetRegistry(id, next)
    /\ UNCHANGED <<running, cmd, mask, newarg, curr, next, id, scanVars, queryVars, reg0>>

-----------------------------------------------------------------------------
(* scan_devices, mbus_scan_1st_address_range and ping_address *)

\* the MBUS_RECV_RESULT_* values the scan keeps in rc
RcOf(res) ==
    CASE res = "OK"      -> 0
      [] res = "ERROR"   -> -1
      [] res = "INVALID" -> -2
      [] res = "TIMEOUT" -> -3

\* what the simulated bus answers to a ping of address a on try t: silence
\* from an empty address, one ACK and nothing left over from a single device
\* (whose answer may be lost on a try that is not the last), a garbled frame
\* or an ACK with bytes left over from several devices
BusAnswer(a, rx, leftover, t) ==
    CASE occ[a] = 0 -> rx[1] = "TIMEOUT"
      [] occ[a] = 1 -> \/ rx = <<"OK", "ACK">> /\ ~leftover
                       \/ rx[1] = "TIMEOUT" /\ t < max_search_retry
      [] OTHER      -> \/ rx[1] = "INVALID"
                       \/ rx = <<"OK", "ACK">> /\ leftover

\* readcmd dispatches "scan"
ScanDevices ==
    /\ pc = "idle"
    /\ cmd' = "scan"
    /\ pc' = "init1"
    /\ address' = 0
    /\ rc' = 1
    /\ UNCHANGED <<running, registry, reg0, ret, bus, out, setVars, queryVars,
                   tries, probes, pinged, last, occ, faithful, sigAddr>>

\* mutant of ScanStops: the running flag not looked at
ScanStops_NoCancel == address > MBUS_MAX_PRIMARY_SLAVES

\* lines 145-149: the loop ends at the end of the range or when running is 0.
\* running is a plain int written by sigcb; ping_address calls into libmbus
\* between two reads of it, so every build reads it afresh in each round
ScanStops == address > MBUS_MAX_PRIMARY_SLAVES \/ ~running

\* the head of the for loop, and the call of ping_address
ScanLoop ==
    /\ pc = "scan_loop"
    /\ IF ScanStops
       THEN /\ Return(rc, << >>)
            /\ UNCHANGED <<tries, probes, last>>
       ELSE /\ pc' = "scan_ping"
            /\ tries' = 0
            /\ probes' = Append(probes, address)
            /\ last' = NoAnswer
            /\ UNCHANGED <<ret, out>>
    /\ UNCHANGED <<running, registry, reg0, cmd, bus, setVars, queryVars,
                   address, rc, pinged, occ, faithful, sigAddr>>

\* line 127; a failed send makes ping_address return ERROR, which ends the
\* scan at line 163
ScanPing ==
    /\ pc = "scan_ping"
    /\ \E ok \in BOOLEAN :
        IF ok
        THEN /\ pinged' = pinged \cup {address}
             /\ pc' = "scan_recv"
             /\ UNCHANGED <<ret, out, rc, last, faithful>>
        ELSE /\ rc' = RcOf("ERROR")
             /\ last' = [res |-> "ERROR", type |-> "NONE", purge |-> FALSE]
             /\ faithful' = FALSE
             /\ Return(RcOf("ERROR"), <<[k |-> "warn", m |-> "ping_failed"],
                                        [k |-> "warn", m |-> "scan_failed"]>>)
             /\ UNCHANGED pinged
    /\ UNCHANGED <<running, registry, reg0, cmd, bus, setVars, queryVars,
                   address, tries, probes, occ, sigAddr>>

\* mutant of ScanClass: the purge after an ACK not looked at
ScanClass_NoPurge(res, type, leftover) ==
    CASE res = "TIMEOUT" -> "none"
      [] res = "INVALID" -> "collision"
      [] res = "ERROR"   -> "abort"
      [] OTHER -> IF type = "ACK" THEN "found" ELSE "none"

\* mutant of ScanClass: a receive error taken for silence
ScanClass_ErrorContinues(res, type, leftover) ==
    CASE res = "TIMEOUT" -> "none"
      [] res = "INVALID" -> "collision"
      [] res = "ERROR"   -> "none"
      [] OTHER -> IF type = "ACK"
                  THEN IF leftover THEN "collision" ELSE "found"
                  ELSE "none"

\* mutant of ScanClass: the frame type not looked at
ScanClass_AnyFrame(res, type, leftover) ==
    CASE res = "TIMEOUT" -> "none"
      [] res = "INVALID" -> "collision"
      [] res = "ERROR"   -> "abort"
      [] OTHER -> IF leftover THEN "collision" ELSE "found"

\* lines 152-174: what the scan does with the result of ping_address
ScanClass(res, type, leftover) ==
    CASE res = "TIMEOUT" -> "none"
      [] res = "INVALID" -> "collision"
      [] res = "ERROR"   -> "abort"
      [] OTHER -> IF type = "ACK"
                  THEN IF leftover THEN "collision" ELSE "found"
                  ELSE "none"

\* line 121: ping_address pings again after a timeout
PingAgain(t) == t < max_search_retry

\* lines 132-137 and 152-175: the receive, the retry of ping_address, the
\* purge and the report
ScanRecv ==
    /\ pc = "scan_recv"
    /\ \E rx \in RecvOutcomes, p \in BOOLEAN :
        LET purged == rx = <<"OK", "ACK">> /\ p
            class  == ScanClass(rx[1], rx[2], purged)
        IN
        /\ rx # <<"OK", "ACK">> => ~p
        /\ faithful' = (faithful /\ BusAnswer(address, rx, p, tries))
        /\ IF rx[1] = "TIMEOUT" /\ PingAgain(tries)
           THEN /\ tries' = tries + 1
                /\ pc' = "scan_ping"
                /\ UNCHANGED <<ret, out, rc, address, last>>
           ELSE /\ last' = [res |-> rx[1], type |-> rx[2], purge |-> purged]
                /\ rc' = RcOf(rx[1])
                /\ UNCHANGED tries
                /\ IF class = "abort"
                   THEN /\ Return(RcOf(rx[1]), <<[k |-> "warn", m |-> "scan_failed"]>>)
                        /\ UNCHANGED address
                   ELSE /\ pc' = "scan_loop"
                        /\ address' = address + 1
                        /\ UNCHANGED ret
                        /\ out' = IF class = "none" THEN out
                                  ELSE Append(out, [k |-> class, a |-> address])
    /\ UNCHANGED <<running, registry, reg0, cmd, bus, setVars, queryVars,
                   probes, pinged, occ, sigAddr>>

-----------------------------------------------------------------------------
(* parse_addr and query_device *)

QueryArgs ==
    [addr : {NULL, "0", "1", "255", "256", "1111111111111111"},
     id   : {NULL, "-1", "0", "1", "2", "3"}]

\* the values a record of a reply may carry
Values == {7, 9}

RECURSIVE SeqsUpTo(_)
SeqsUpTo(n) ==
    IF n = 0 THEN {<< >>}
    ELSE LET shorter == SeqsUpTo(n - 1) IN
         shorter \cup {Append(q, v) : q \in {r \in shorter : Len(r) = n - 1},
                                      v \in Values}

\* what mbus_frame_data_parse can make of a received frame
ParseOutcomes ==
    {[type |-> "PARSE_ERROR", recs |-> << >>],
     [type |-> "FIXED", recs |-> << >>],
     [type |-> "ERROR", recs |-> << >>]} \cup
    {[type |-> "VARIABLE", recs |-> r] : r \in SeqsUpTo(MaxRecords)}

\* data.data_var.record after the parse: the head of the list of a variable
\* reply; data is a local never initialised, and the field is not written
\* for the other reply types
RecordPtr(d) ==
    IF d.type = "VARIABLE"
    THEN IF d.recs = << >> THEN {"NULL"} ELSE {"LIST"}
    ELSE {"NULL", "GARBAGE"}

\* if (data.data_var.record) mbus_data_record_free(data.data_var.record)
FreeRecords(ptr) == IF ptr = "NULL" THEN << >> ELSE <<Free(ptr)>>

\* toggle_verbose
ToggleVerbose ==
    /\ pc = "idle"
    /\ cmd' = "verbose"
    /\ verbose' = ~verbose
    /\ Return(0, << >>)
    /\ UNCHANGED <<running, registry, reg0, bus, setVars, scanVars,
                   xml, qargs, qaddr, data>>

\* toggle_xml
ToggleXml ==
    /\ pc = "idle"
    /\ cmd' = "xml"
    /\ xml' = ~xml
    /\ Return(0, << >>)
    /\ UNCHANGED <<running, registry, reg0, bus, setVars, scanVars,
                   verbose, qargs, qaddr, data>>

\* readcmd dispatches "request ADDR [ID]"; lines 287-288 and 257-260: a
\* missing address makes parse_addr return 1 before any bus I/O
QueryDevice(a) ==
    /\ pc = "idle"
    /\ cmd' = "query"
    /\ mask' = a.addr
    /\ qargs' = a.id
    /\ IF a.addr = NULL
       THEN /\ qaddr' = 1
            /\ pc' = "q_request"
            /\ out' = Append(out, [k |-> "warn", m |-> "missing_address"])
       ELSE /\ pc' = "init1"
            /\ UNCHANGED <<qaddr, out>>
    /\ UNCHANGED <<running, registry, reg0, ret, bus, scanVars,
                   newarg, curr, next, id, retries, reply, verbose, xml, data>>

\* lines 271-274: the range check of a primary address
PrimaryOk(a) == ~(a < 1 \/ a > 255)

\* lines 265-277 of parse_addr, after init_slaves; every failure returns 1
QueryResolve ==
    /\ pc = "q_resolve"
    /\ IF mbus_is_secondary_address(mask)
       THEN \E r \in ProbeResults :
              /\ bus' = Append(bus, Select(mask, r))
              /\ qaddr' = IF secondary_select(r) = -1 THEN 1
                          ELSE MBUS_ADDRESS_NETWORK_LAYER
              /\ out' = IF secondary_select(r) = -1
                        THEN Append(out, [k |-> "warn", m |-> "select_failed"])
                        ELSE out
       ELSE /\ qaddr' = IF PrimaryOk(atoi(mask)) THEN atoi(mask) ELSE 1
            /\ out' = IF PrimaryOk(atoi(mask)) THEN out
                      ELSE Append(out, [k |-> "warn", m |-> "invalid_primary"])
            /\ UNCHANGED bus
    /\ pc' = "q_request"
    /\ UNCHANGED <<running, registry, reg0, cmd, ret, setVars, scanVars,
                   verbose, xml, qargs, data>>

\* line 289
QueryRequest ==
    /\ pc = "q_request"
    /\ \E ok \in BOOLEAN :
        /\ bus' = Append(bus, Request(qaddr, ok))
        /\ IF ok
           THEN pc' = "q_recv" /\ UNCHANGED <<ret, out>>
           ELSE Return(1, <<[k |-> "warn", m |-> "request_failed"]>>)
    /\ UNCHANGED <<running, registry, reg0, cmd, setVars, scanVars, queryVars>>

\* lines 294-302: the receive, and the raw dump when nothing else is asked
QueryRecv ==
    /\ pc = "q_recv"
    /\ \E rx \in RecvOutcomes :
        /\ bus' = Append(bus, Recv(rx[1], rx[2]))
        /\ reply' = ReplyAfter(rx)
        /\ IF rx[1] # "OK"
           THEN Return(1, <<[k |-> "warn", m |-> "receive_failed"]>>)
           ELSE IF qargs = NULL /\ ~verbose /\ ~xml
           THEN Return(0, <<[k |-> "raw"]>>)
           ELSE pc' = "q_data" /\ UNCHANGED <<ret, out>>
    /\ UNCHANGED <<running, registry, reg0, cmd, scanVars, queryVars,
                   mask, newarg, curr, next, id, retries>>

\* lines 347-348: the value of i when the walk to record_id ends
Walk(n, record_id) ==
    IF record_id <= 0 THEN 0
    ELSE IF record_id < n THEN record_id ELSE n

\* line 350: the test that sends the query to the out-of-range exit
OutOfRange(i, record_id) == i # record_id

\* lines 309-326: the whole reply; x tells whether mbus_frame_data_xml
\* returned a string
QueryWhole(d, ptr, x) ==
    IF xml
    THEN IF ~x
         THEN /\ Return(1, <<[k |-> "warn", m |-> "xml_failed"]>>)
              /\ UNCHANGED bus
         ELSE /\ Return(0, <<[k |-> "xml", recs |-> d.recs]>>)
              /\ bus' = bus \o FreeRecords(ptr)
    ELSE /\ Return(0, <<[k |-> "table", recs |-> d.recs]>>)
         /\ bus' = bus \o FreeRecords(ptr)

\* lines 327-374: one record; mbus_parse_variable_record has no record to
\* give when the walk ended behind the last entry
QueryOne(d, ptr) ==
    LET record_id == atoi(qargs)
        i == Walk(Len(d.recs), record_id)
    IN
    IF d.type # "VARIABLE"
    THEN Return(0, << >>) /\ UNCHANGED bus
    ELSE IF OutOfRange(i, record_id)
    THEN /\ Return(1, << >>)
         /\ bus' = bus \o FreeRecords(ptr)
    ELSE /\ Return(0, IF i < Len(d.recs)
                      THEN <<[k |-> "value", v |-> d.recs[i + 1],
                              unit |-> verbose]>>
                      ELSE << >>)
         /\ bus' = bus \o FreeRecords(ptr)

\* lines 304-376: the parse, then the whole reply or one record
QueryData ==
    /\ pc = "q_data"
    /\ \E d \in ParseOutcomes, x \in BOOLEAN :
        /\ x = FALSE => (xml /\ qargs = NULL /\ d.type # "PARSE_ERROR")
        /\ data' = d
        /\ IF d.type = "PARSE_ERROR"
           THEN Return(1, <<[k |-> "warn", m |-> "parse_error"]>>)
                /\ UNCHANGED bus
           ELSE \E ptr \in RecordPtr(d) :
                  IF qargs = NULL
                  THEN QueryWhole(d, ptr, x)
                  ELSE QueryOne(d, ptr)
    /\ UNCHANGED <<running, registry, reg0, cmd, setVars, scanVars,
                   verbose, xml, qargs, qaddr>>

-----------------------------------------------------------------------------
(* Properties of set_address *)

\* positions of the set-primary-address commands handed to the bus
SetIdx == {k \in 1..Len(bus) : bus[k].e = "set" /\ bus[k].ok}
SelectIdx == {k \in 1..Len(bus) : bus[k].e = "select"}
\* positions of the receives that follow a set command
SetRecvIdx == {k \in 2..Len(bus) : bus[k].e = "recv" /\ bus[k-1].e = "set"}
TimeoutIdx == {k \in SetRecvIdx : bus[k].res = "TIMEOUT"}

\* set_address has returned
SetDone == cmd = "set" /\ pc = "done"
\* set_address got as far as the receive after the verification ping
\* (bus[1], bus[2]: init_slaves; bus[3]: the ping; bus[4]: its receive)
Verified == cmd = "set" /\ Len(bus) >= 4

\* C1: set_address returns 0 only if the receive after a set command that was
\* sent delivered a frame of type ACK; when that receive ends in ERROR, in
\* INVALID, in a frame that is not an ACK, or in timeouts only, it fails.
C1_SuccessOnlyAfterAck ==
    (SetDone /\ ret = 0) =>
        /\ Len(bus) >= 2
        /\ bus[Len(bus)] = Recv("OK", "ACK")
        /\ bus[Len(bus) - 1].e = "set"
        /\ bus[Len(bus) - 1].ok

\* C2: the verification ping precedes every select and set command, and when
\* its receive is anything but TIMEOUT set_address fails having sent neither
\* a select nor a set command, the registry as it was.
C2_VerifyBeforeMutation ==
    /\ (cmd = "set" /\ (SetIdx \cup SelectIdx) # {}) =>
          /\ \A k \in SetIdx \cup SelectIdx : k > 4
          /\ bus[3] = Ping(next, TRUE)
          /\ bus[4] = Recv("TIMEOUT", "NONE")
    /\ (Verified /\ bus[4].res # "TIMEOUT") =>
          /\ SetDone
          /\ ret = 1
          /\ Len(bus) = 4
          /\ bus[3] = Ping(next, TRUE)
          /\ registry = reg0

C2_Witness ==
    /\ SetDone
    /\ Len(bus) = 4
    /\ bus[4] = Recv("INVALID", "NONE")
    /\ reg0 # << >>

\* C3 as stated: a timeout at the verification ping aborts set_address before
\* any set command is sent.
C3_TimeoutAborts ==
    (Verified /\ bus[4].res = "TIMEOUT") => SetIdx = {}

\* C3 amended: a timeout at the verification ping does not abort: set_address
\* goes on to the secondary select (secondary current address) or to the set
\* command (primary current address); and a set command is sent only after
\* the receive of the verification ping timed out.
C3_TimeoutProceeds ==
    /\ (Verified /\ bus[4].res = "TIMEOUT" /\ SetDone) =>
          /\ Len(bus) >= 5
          /\ bus[5].e = IF mbus_is_secondary_address(mask) THEN "select" ELSE "set"
    /\ (cmd = "set" /\ SetIdx # {}) =>
          (Verified /\ bus[4].res = "TIMEOUT")

C3_Witness ==
    /\ SetDone
    /\ Verified
    /\ bus[4].res = "TIMEOUT"
    /\ SetIdx # {}
    /\ ret = 0

\* C4: at most 3 set commands per invocation; a timeout that is not the
\* third is followed by another set command; k timeouts (k in 0..2) and then
\* an ACK make k+1 set commands and success; 3 timeouts make 3 set commands
\* and the no-reply failure, the registry as it was.
C4_RetryPolicy ==
    cmd = "set" =>
        /\ Cardinality(SetIdx) <= 3
        /\ \A k \in TimeoutIdx :
              \/ k < Len(bus) /\ bus[k+1].e = "set"
              \/ k = Len(bus) /\ pc = "set_send"
              \/ k = Len(bus) /\ pc = "done" /\ Cardinality(TimeoutIdx) = 3
        /\ (SetDone /\ SetRecvIdx # {} /\ bus[Len(bus)] = Recv("OK", "ACK")
              /\ SetRecvIdx \ TimeoutIdx = {Len(bus)}) =>
              /\ Cardinality(TimeoutIdx) \in 0..2
              /\ Cardinality(SetIdx) = Cardinality(TimeoutIdx) + 1
              /\ ret = 0
        /\ (SetDone /\ Cardinality(TimeoutIdx) = 3) =>
              /\ Cardinality(SetIdx) = 3
              /\ SetRecvIdx = TimeoutIdx
              /\ ret = 1
              /\ out = <<[k |-> "warn", m |-> "no_reply"]>>
              /\ registry = reg0

\* two timeouts and then an ACK: three set commands, success
C4_Witness ==
    /\ SetDone
    /\ Cardinality(TimeoutIdx) = 2
    /\ Cardinality(SetIdx) = 3
    /\ bus[Len(bus)] = Recv("OK", "ACK")
    /\ ret = 0

\* positions of the set-primary-address commands, sent or failed in sending
SetAllIdx == {k \in 1..Len(bus) : bus[k].e = "set"}

\* C16: with a secondary mask as current address, a set command goes to the
\* network-layer address and only after a select of that mask returned
\* SINGLE; a select that returned COLLISION, NOTHING or ERROR is the last
\* thing on the bus: set_address returns 1, no set command was sent and the
\* registry is as it was.
C16_SetOnlyAfterSingle ==
    (cmd = "set" /\ mbus_is_secondary_address(mask)) =>
        /\ Cardinality(SelectIdx) <= 1
        /\ \A k \in SetAllIdx :
              /\ bus[k].curr = MBUS_ADDRESS_NETWORK_LAYER
              /\ \E j \in SelectIdx : j < k /\ bus[j] = Select(mask, "SINGLE")
        /\ \A j \in SelectIdx :
              bus[j].res # "SINGLE" =>
                 /\ bus[j].mask = mask
                 /\ j = Len(bus)
                 /\ SetDone
                 /\ ret = 1
                 /\ SetAllIdx = {}
                 /\ registry = reg0

\* the select of a registered device's address ended in a collision
C16_Witness ==
    /\ SetDone
    /\ id >= 0
    /\ Len(bus) = 5
    /\ bus[5] = Select(mask, "COLLISION")
    /\ ret = 1

-----------------------------------------------------------------------------
(* Properties of the registry *)

\* the step in which set_address, called with current address s, returns 0
SetSucceeds(s) ==
    /\ cmd = "set"
    /\ mask = s
    /\ pc = "set_recv"
    /\ pc' = "done"
    /\ ret' = 0

\* C9: once a probe has put s into the registry, a set_address with current
\* address s and new address p that succeeds leaves p in the primary field of
\* the entry a lookup of s finds, and that field changes in no other step.
C9_RoundTrip ==
    [][\A s \in SecAddrs :
         LET i == reg_find_secondary(s) IN
         i >= 0 =>
            /\ Len(registry') > i
            /\ IF SetSucceeds(s)
               THEN registry'[i + 1] = [primary |-> next, secondary |-> s]
               ELSE registry'[i + 1] = registry[i + 1]]_vars

\* the second entry of the registry was reassigned to 250 and then to 1
C9_Witness ==
    /\ SetDone
    /\ ret = 0
    /\ Len(registry) = 2
    /\ mask = registry[2].secondary
    /\ reg0[2].primary = 250
    /\ registry[2].primary = 1

\* C10: no two entries hold the same secondary address, there are never more
\* than REG_NUM_MAX entries, and an entry is never removed or moved.
C10_RegistryShape ==
    /\ [](/\ Len(registry) <= REG_NUM_MAX
          /\ \A i, j \in 1..Len(registry) :
                registry[i].secondary = registry[j].secondary => i = j)
    /\ [][/\ Len(registry') >= Len(registry)
          /\ \A i \in 1..Len(registry) :
                registry'[i].secondary = registry[i].secondary]_vars

\* a full registry, and a probe that reported a known address and then a
\* new one
C10_Witness ==
    /\ pc = "probe_run"
    /\ Len(registry) = REG_NUM_MAX
    /\ Len(reg0) = REG_NUM_MAX
    /\ NumFound = 2
    /\ reg_find_secondary(bus[3].addr) >= 0
    /\ reg_find_secondary(bus[4].addr) = -1

\* found_device(s) has just run, and s is in the registry: the call of
\* reg_add(s) it made registered s, or found it registered
Registered(s) ==
    /\ pc = "probe_run"
    /\ bus # << >>
    /\ bus[Len(bus)] = [e |-> "found", addr |-> s]
    /\ reg_find_secondary(s) >= 0

\* C11: a second reg_add(s) right after a reg_add(s) that left s registered
\* changes nothing in the registry and returns 0, the status of a successful
\* reg_add(s), also when the first call took the last free slot.
C11_Idempotent ==
    [][\A s \in SecAddrs :
         (Registered(s) /\ FoundDevice(s)) =>
            /\ registry' = registry
            /\ reg_add_rc(s) = 0]_vars

-----------------------------------------------------------------------------
(* Properties of the secondary probe *)

\* the addresses the discovery callback was called with in the current probe
ReportedAddrs ==
    {bus[k].addr : k \in {j \in 1..Len(bus) : bus[j].e = "found"}}
Secondaries(r) == {r[i].secondary : i \in 1..Len(r)}
NoDup(r) == \A i, j \in 1..Len(r) : r[i].secondary = r[j].secondary => i = j
ProbeEnded == cmd = "probe" /\ pc = "done"

\* C14 as stated: a probe terminates, and when it has ended the registry
\* holds every address the probe reported, each once, however many distinct
\* addresses there are.
C14_AllRegistered ==
    /\ [](ProbeEnded =>
            /\ NoDup(registry)
            /\ ReportedAddrs \subseteq Secondaries(registry))
    /\ (cmd = "probe" ~> ProbeEnded)

\* C14 amended: a probe terminates; throughout it the registry has no
\* duplicate, keeps the entries it had, and gains reported addresses only;
\* every reported address is registered unless the registry holds
\* REG_NUM_MAX entries, in which case the addresses reported after it filled
\* up are dropped.
C14_RegisteredWhileRoom ==
    /\ [](cmd = "probe" =>
            /\ NoDup(registry)
            /\ Len(registry) >= Len(reg0)
            /\ SubSeq(registry, 1, Len(reg0)) = reg0
            /\ Secondaries(registry) \subseteq
                  Secondaries(reg0) \cup ReportedAddrs
            /\ \A s \in ReportedAddrs :
                  \/ s \in Secondaries(registry)
                  \/ Len(registry) = REG_NUM_MAX)
    /\ (cmd = "probe" ~> ProbeEnded)

\* a probe on an empty registry that reported two devices, one of them
\* twice, and listed both
C14_Witness ==
    /\ ProbeEnded
    /\ ret = 0
    /\ reg0 = << >>
    /\ NumFound = 3
    /\ Cardinality(ReportedAddrs) = 2
    /\ Secondaries(registry) = ReportedAddrs
    /\ Len(registry) = 2

\* C15: the discovery callback reports an address that is not yet in the
\* registry to the operator in the very step it runs, and reports nothing
\* for an address already registered.
C15_ReportedWhenFound ==
    [][\A s \in SecAddrs :
         FoundDevice(s) =>
            IF reg_find_secondary(s) = -1
            THEN out' = Append(out, [k |-> "Found", addr |-> s])
            ELSE out' = out]_vars

-----------------------------------------------------------------------------
(* Properties of the primary scan *)

Reported(kind, a) == \E k \in 1..Len(out) : out[k] = [k |-> kind, a |-> a]
FoundSet == {a \in 0..MBUS_MAX_PRIMARY_SLAVES : Reported("found", a)}
CollisionSet == {a \in 0..MBUS_MAX_PRIMARY_SLAVES : Reported("collision", a)}

\* the scan went through the whole range
ScanComplete ==
    cmd = "scan" /\ pc = "done" /\ address > MBUS_MAX_PRIMARY_SLAVES
\* the scan has just dealt with the answer to address probes[Len(probes)]
Classified ==
    /\ cmd = "scan"
    /\ pc \in {"scan_loop", "done"}
    /\ probes # << >>
    /\ last.res \notin {"NONE", "ERROR"}
\* ping_address was called for 0, 1, 2, ... in this order, once each
Ascending == probes = [k \in 1..Len(probes) |-> k - 1]

\* exactly one of three
OneOf3(a, b, c) == (a /\ ~b /\ ~c) \/ (~a /\ b /\ ~c) \/ (~a /\ ~b /\ c)

\* C5 as stated: every address is probed once, in ascending order, and is
\* one of Found, Absent (no reply) and Collision whatever was received; the
\* addresses reported found are those with exactly one device.
C5_ThreeClasses ==
    /\ cmd = "scan" => Ascending
    /\ ScanComplete => Len(probes) = MBUS_MAX_PRIMARY_SLAVES + 1
    /\ Classified =>
          LET a == probes[Len(probes)] IN
          OneOf3(Reported("found", a), last.res = "TIMEOUT",
                 Reported("collision", a))
    /\ (ScanComplete /\ faithful) =>
          FoundSet = {a \in 0..MBUS_MAX_PRIMARY_SLAVES : occ[a] = 1}

\* C5 amended: every address is probed once, in ascending order; an address
\* is reported found iff the answer was OK with an ACK frame and a clean
\* purge, reported as a collision iff the answer was INVALID or an ACK with
\* bytes left over, never both; a timeout is reported as nothing, and so is
\* an OK answer whose frame is not an ACK, although a device replied; on a
\* bus whose devices answer a ping with an ACK the addresses reported found
\* are those with exactly one device.
C5_FourOutcomes ==
    /\ cmd = "scan" => Ascending
    /\ ScanComplete => Len(probes) = MBUS_MAX_PRIMARY_SLAVES + 1
    /\ Classified =>
          LET a == probes[Len(probes)] IN
          /\ Reported("found", a) <=>
                (last.res = "OK" /\ last.type = "ACK" /\ ~last.purge)
          /\ Reported("collision", a) <=>
                (last.res = "INVALID" \/
                 (last.res = "OK" /\ last.type = "ACK" /\ last.purge))
          /\ (~Reported("found", a) /\ ~Reported("collision", a)) <=>
                (last.res = "TIMEOUT" \/
                 (last.res = "OK" /\ last.type # "ACK"))
          /\ Cardinality({k \in 1..Len(out) : out[k].a = a}) <= 1
    /\ (ScanComplete /\ faithful) =>
          FoundSet = {a \in 0..MBUS_MAX_PRIMARY_SLAVES : occ[a] = 1}

\* a whole scan with one address found, one collision and a last address
\* that answered with a frame that is not an ACK
C5_Witness ==
    /\ ScanComplete
    /\ Reported("found", 0)
    /\ Reported("collision", 1)
    /\ last.res = "OK"
    /\ last.type = "SHORT"
    /\ Len(out) = 2

\* C6: once sigcb has cleared running during a scan, no ping goes to an
\* address other than the one being probed at that moment, ping_address is
\* called for no further address, what was reported stays and only a report
\* on that address can follow; the scan returns with every address above it
\* unprobed.
C6_Cancellation ==
    /\ [][(cmd = "scan" /\ ~running /\ pc # "done") =>
            /\ pinged' \subseteq pinged \cup {sigAddr}
            /\ probes' = probes
            /\ Len(out') >= Len(out)
            /\ SubSeq(out', 1, Len(out)) = out
            /\ \A k \in (Len(out) + 1)..Len(out') :
                  out'[k].k \in {"found", "collision"} =>
                     out'[k].a = sigAddr]_vars
    /\ []((cmd = "scan" /\ pc = "done" /\ sigAddr >= 0) =>
            /\ probes = [k \in 1..(sigAddr + 1) |-> k - 1]
            /\ pinged \subseteq 0..sigAddr
            /\ sigAddr < MBUS_MAX_PRIMARY_SLAVES =>
                  Len(probes) < MBUS_MAX_PRIMARY_SLAVES + 1
            /\ ret = rc)

\* cancelled while address 1 was being probed, after address 0 was found
C6_Witness ==
    /\ cmd = "scan"
    /\ pc = "done"
    /\ sigAddr = 1
    /\ Reported("found", 0)
    /\ Len(probes) = 2
    /\ pinged = {0, 1}

\* the address probed last timed out or was reported as a collision
TimeoutOrCollision ==
    \/ last.res \in {"TIMEOUT", "INVALID"}
    \/ last.res = "OK" /\ last.type = "ACK" /\ last.purge
\* the scan is back at the head of its loop after such an outcome at an
\* address below the end of the range
Continuing ==
    /\ cmd = "scan"
    /\ pc = "scan_loop"
    /\ probes # << >>
    /\ TimeoutOrCollision
    /\ address <= MBUS_MAX_PRIMARY_SLAVES
\* the scan calls ping_address for the address after the one probed last
ProbesNext ==
    /\ pc' = "scan_ping"
    /\ probes' = Append(probes, probes[Len(probes)] + 1)
\* a failed ping send or an ERROR receive ended the scan at the address
\* probed last: nothing above it was probed or pinged
EndedByError ==
    /\ pc = "done"
    /\ ret = RcOf("ERROR")
    /\ \A k \in 1..Len(probes) : probes[k] <= probes[Len(probes)]
    /\ \A a \in pinged : a <= probes[Len(probes)]

\* C18 as stated: after a timeout or a collision at an address a below the
\* end of the range the scan always goes on to probe a+1; a transport error
\* at a ends the scan with no ping to an address above a.
C18_AlwaysContinues ==
    /\ [][(Continuing /\ pc' # pc) => ProbesNext]_vars
    /\ []((cmd = "scan" /\ last.res = "ERROR") => EndedByError)

\* C18 amended: the scan goes on to a+1 after a timeout or a collision at a
\* unless sigcb has cleared running in the meantime, in which case it returns
\* without probing a+1; a transport error at a ends the scan with no ping to
\* an address above a.
C18_ContinuesUnlessCancelled ==
    /\ [][(Continuing /\ pc' # pc) =>
            IF running THEN ProbesNext
            ELSE pc' = "done" /\ probes' = probes /\ pinged' = pinged]_vars
    /\ []((cmd = "scan" /\ last.res = "ERROR") => EndedByError)

\* a collision at address 0, then a transport error at address 1
C18_Witness ==
    /\ cmd = "scan"
    /\ pc = "done"
    /\ running
    /\ Reported("collision", 0)
    /\ probes = <<0, 1>>
    /\ last.res = "ERROR"
    /\ ret = -1

\* C19: an address is reported found only if its ping was answered OK with
\* an ACK frame and the purge right after it found nothing left over; with
\* data left over the address is reported as a collision and not as found;
\* no address is reported both as found and as a collision, and only an
\* address that was pinged is reported at all.
C19_FoundOnlyWhenClean ==
    cmd = "scan" =>
        /\ FoundSet \cap CollisionSet = {}
        /\ FoundSet \cup CollisionSet \subseteq pinged
        /\ Classified =>
              LET a == probes[Len(probes)] IN
              /\ Reported("found", a) =>
                    (last.res = "OK" /\ last.type = "ACK" /\ ~last.purge)
              /\ (last.res = "OK" /\ last.type = "ACK" /\ last.purge) =>
                    (Reported("collision", a) /\ ~Reported("found", a))

\* address 0 found, then an ACK from address 1 with data left over
C19_Witness ==
    /\ cmd = "scan"
    /\ probes = <<0, 1>>
    /\ last = [res |-> "OK", type |-> "ACK", purge |-> TRUE]
    /\ out = <<[k |-> "found", a |-> 0], [k |-> "collision", a |-> 1]>>

-----------------------------------------------------------------------------
(* Properties of query_device *)

\* parse_addr resolved the address token: none of its failures was reported
QueryResolved ==
    \A k \in 1..Len(out) :
        out[k].k = "warn" =>
           out[k].m \notin {"missing_address", "init_failed", "select_failed",
                            "invalid_primary"}
\* query_device has returned after parsing a variable-format reply received
\* from the address it was given
QueryParsed ==
    cmd = "query" /\ pc = "done" /\ data.type = "VARIABLE" /\ QueryResolved
\* the record values query_device printed
Printed == SelectSeq(out, LAMBDA r : r.k = "value")
\* calls of mbus_data_record_free on the list parsed from the reply
Freed == Cardinality({k \in 1..Len(bus) : bus[k] = Free("LIST")})

\* C7: with record index i asked of a variable-format reply of N records,
\* 0 <= i < N prints the value of the record at position i and returns 0;
\* i >= N (i = N too) or i < 0 returns the out-of-range failure and prints
\* no value.
C7_RecordSelection ==
    (QueryParsed /\ qargs # NULL) =>
        LET i == atoi(qargs)
            N == Len(data.recs)
        IN IF 0 <= i /\ i < N
           THEN /\ ret = 0
                /\ Len(Printed) = 1
                /\ Printed[1].v = data.recs[i + 1]
           ELSE /\ ret = 1
                /\ Printed = << >>

\* C8: once the reply has been parsed into a list of records, the list is
\* freed exactly once before query_device returns, whatever the exit.
C8_FreedOnce ==
    (QueryParsed /\ data.recs # << >>) => Freed = 1

\* positions of the data-request frames handed to the bus
RequestIdx == {k \in 1..Len(bus) : bus[k].e = "request"}

\* C13: when parse_addr fails (no address token, a primary address outside
\* 1..255, a failed send in init_slaves, a select that is not SINGLE), no
\* data request is sent to any address and query_device returns failure.
C13_NoRequestOnFailure ==
    (cmd = "query" /\ ~QueryResolved) =>
        /\ RequestIdx = {}
        /\ (pc = "done" => ret = 1)

-----------------------------------------------------------------------------
(* Properties of init_slaves *)

\* positions of the pings to the two addresses init_slaves uses
InitPingIdx ==
    {k \in 1..Len(bus) :
        /\ bus[k].e = "ping"
        /\ bus[k].a \in {MBUS_ADDRESS_NETWORK_LAYER,
                         MBUS_ADDRESS_BROADCAST_NOREPLY}}
\* positions of the init_slaves pings whose send failed
InitFailIdx == {k \in InitPingIdx : ~bus[k].ok}
\* the command did something on the bus beyond init_slaves
BeyondInit == Len(bus) > 2 \/ pinged # {} \/ probes # << >>

\* C17: in scan, probe and set_address the first frame is one ping to the
\* network-layer address and the second, sent only if the first send
\* succeeded, one ping to the no-reply broadcast address; neither is sent
\* again; when either send fails the command returns failure and that ping
\* is the last frame it sent.
C17_InitOnce ==
    cmd \in {"scan", "probe", "set"} =>
        /\ InitPingIdx \subseteq {1, 2}
        /\ Len(bus) >= 1 => bus[1].e = "ping" /\ bus[1].a = MBUS_ADDRESS_NETWORK_LAYER
        /\ Len(bus) >= 2 =>
              /\ bus[1].ok
              /\ bus[2].e = "ping"
              /\ bus[2].a = MBUS_ADDRESS_BROADCAST_NOREPLY
        /\ BeyondInit => (Len(bus) >= 2 /\ bus[1].ok /\ bus[2].ok)
        /\ \A k \in InitFailIdx :
              /\ k = Len(bus)
              /\ pc = "done"
              /\ ret = InitFailRc(cmd)
              /\ ret # 0
              /\ ~BeyondInit
              /\ registry = reg0

\* a scan that failed at the second ping of init_slaves
C17_Witness ==
    /\ cmd = "scan"
    /\ pc = "done"
    /\ bus = <<Ping(MBUS_ADDRESS_NETWORK_LAYER, TRUE),
               Ping(MBUS_ADDRESS_BROADCAST_NOREPLY, FALSE)>>
    /\ ret = -1

\* C20: when set_address hands a set command to the bus, the bus has seen,
\* in this order: the two pings of init_slaves, the verification ping to the
\* new address and its timed-out receive, with a secondary current address
\* one select of that mask that returned SINGLE (and no select otherwise),
\* and from then on only set commands, each followed by its receive: no
\* ping of init_slaves and no other select comes after the select.
C20_FrameOrder ==
    (cmd = "set" /\ SetAllIdx # {}) =>
        LET sec   == mbus_is_secondary_address(mask)
            first == IF sec THEN 6 ELSE 5
        IN
        /\ Len(bus) >= first
        /\ bus[1] = Ping(MBUS_ADDRESS_NETWORK_LAYER, TRUE)
        /\ bus[2] = Ping(MBUS_ADDRESS_BROADCAST_NOREPLY, TRUE)
        /\ bus[3] = Ping(next, TRUE)
        /\ bus[4] = Recv("TIMEOUT", "NONE")
        /\ InitPingIdx = {1, 2}
        /\ SelectIdx = IF sec THEN {5} ELSE {}
        /\ sec => bus[5] = Select(mask, "SINGLE")
        /\ \A k \in first..Len(bus) :
              IF (k - first) % 2 = 0
              THEN bus[k].e = "set" /\ bus[k].curr = curr /\ bus[k].next = next
              ELSE bus[k].e = "recv" /\ bus[k-1].ok

\* a registered device selected by its secondary address and reassigned at
\* the second set command
C20_Witness ==
    /\ SetDone
    /\ ret = 0
    /\ id >= 0
    /\ Len(bus) = 9
    /\ bus[5] = Select(mask, "SINGLE")
    /\ Cardinality(SetIdx) = 2

-----------------------------------------------------------------------------
(* Properties of input validation *)

\* the command being executed was given input it has to reject: a probe mask
\* that is no secondary address, set_address arguments that do not pass
\* lines 386-412, a query address that is missing or outside 1..255
InvalidInput ==
    \/ cmd = "probe" /\ ~mbus_is_secondary_address(mask)
    \/ cmd = "set" /\ ~SetParse([mask |-> mask, new |-> newarg]).ok
    \/ cmd = "query" /\ (\/ mask = NULL
                         \/ /\ ~mbus_is_secondary_address(mask)
                            /\ ~PrimaryOk(atoi(mask)))

\* C12: a command given invalid input hands no frame to the bus, the two
\* pings of init_slaves included, leaves the registry as it was and returns
\* failure.
C12_RejectedBeforeBus ==
    InvalidInput =>
        /\ bus = << >>
        /\ registry = reg0
        /\ (pc = "done" => ret # 0)

-----------------------------------------------------------------------------
(* main and readcmd *)

\* quit_program
Quit ==
    /\ pc = "idle"
    /\ cmd' = "quit"
    /\ running' = FALSE
    /\ Return(0, << >>)
    /\ UNCHANGED <<registry, bus, setVars, scanVars, queryVars, reg0>>

\* main's while (running): the next readcmd starts with fresh locals, or the
\* program leaves the loop
MainLoop ==
    /\ pc = "done"
    /\ pc' = IF running THEN "idle" ELSE "exit"
    /\ cmd' = "none"
    /\ ret' = 0
    /\ bus' = << >>
    /\ out' = << >>
    /\ mask' = NULL
    /\ newarg' = NULL
    /\ curr' = 0
    /\ next' = 0
    /\ id' = -1
    /\ retries' = 0
    /\ reply' = "UNINIT"
    /\ address' = 0
    /\ tries' = 0
    /\ rc' = 0
    /\ probes' = << >>
    /\ pinged' = {}
    /\ last' = NoAnswer
    /\ faithful' = TRUE
    /\ sigAddr' = -1
    /\ qargs' = NULL
    /\ qaddr' = 0
    /\ data' = NoData
    /\ reg0' = registry
    /\ UNCHANGED <<running, registry, occ, verbose, xml>>

Next ==
    \/ Sigcb
    \/ Quit
    \/ MainLoop
    \/ InitSlaves1
    \/ InitSlaves2
    \/ \E a \in ProbeArgs : ProbeDevices(a)
    \/ ProbeMask
    \/ \E s \in SecAddrs : FoundDevice(s)
    \/ ProbeEnd
    \/ \E a \in SetArgs : SetAddress(a)
    \/ SetVerifyPing
    \/ SetVerifyRecv
    \/ SetSelect
    \/ SetSend
    \/ SetRecv

Spec == Init /\ [][Next]_vars

\* the primary scan on a simulated bus; the scan neither reads nor writes the
\* registry, which stays empty here
InitScan ==
    /\ Start
    /\ occ \in [0..MBUS_MAX_PRIMARY_SLAVES -> 0..MaxDevices]

NextScan ==
    \/ Sigcb
    \/ MainLoop
    \/ InitSlaves1
    \/ InitSlaves2
    \/ ScanDevices
    \/ ScanLoop
    \/ ScanPing
    \/ ScanRecv

SpecScan == InitScan /\ [][NextScan]_vars

\* the data query; it neither reads nor writes the registry
NextQuery ==
    \/ Sigcb
    \/ MainLoop
    \/ ToggleVerbose
    \/ ToggleXml
    \/ InitSlaves1
    \/ InitSlaves2
    \/ \E a \in QueryArgs : QueryDevice(a)
    \/ QueryResolve
    \/ QueryRequest
    \/ QueryRecv
    \/ QueryData

SpecQuery == Init /\ [][NextQuery]_vars

\* the secondary probe alone; the control thread keeps running, so a step
\* that stays possible is eventually taken
NextProbe ==
    \/ Sigcb
    \/ MainLoop
    \/ InitSlaves1
    \/ InitSlaves2
    \/ \E a \in ProbeArgs : ProbeDevices(a)
    \/ ProbeMask
    \/ \E s \in SecAddrs : FoundDevice(s)
    \/ ProbeEnd

SpecProbe == Init /\ [][NextProbe]_vars /\ WF_vars(NextProbe)

\* every command that begins with init_slaves, on a bus with no device
NextBus ==
    \/ Next
    \/ ScanDevices
    \/ ScanLoop
    \/ ScanPing
    \/ ScanRecv

SpecBus == Init /\ [][NextBus]_vars
=============================================================================
